---- MODULE Spec2Model ----
(***************************************************************************)
(* Model of adafruit_max31855.py: the MAX31855 driver object, its reusable *)
(* 4-byte buffer self.data, the SPI lock taken by the with-statement of    *)
(* _read, and the three read properties temperature,                       *)
(* reference_temperature and linearized_temperature.                       *)
(*                                                                         *)
(* Temperatures are exact: they are kept in thousandths of a degree        *)
(* Celsius (code / 4 = code * 250 m°C, code * 0.625 = code * 625 m°C).     *)
(* Voltages are kept in microvolts.                                        *)
(***************************************************************************)
EXTENDS Integers, FiniteSets, Sequences, TLC

VARIABLES
    usage,    \* "single": one caller uses the object; "threaded": several do
    data,     \* self.data, the reusable bytearray(4)
    lock,     \* holder of the SPI bus lock (0 = free)
    pc,       \* pc[t]: position of caller t inside its call
    op,       \* op[t]: the property caller t is reading
    xerr,     \* xerr[t]: spi.readinto raised and the exception is in flight
    got,      \* got[t]: the frames transferred by t's own transactions in this call
    ntx,      \* ntx[t]: bus transactions started by t in this call
    raised,   \* raised[t]: the exception the call ended with ({} if none)
    code,     \* code[t]: the integer _read returned ({} if it raised)
    value,    \* value[t]: the value the property returned, in m°C ({} if none)
    last      \* the most recent read that returned a value: <<op, frame, value>>

vars == <<usage, data, lock, pc, op, xerr, got, ntx, raised, code, value, last>>

Threads == {1, 2}

Queries == {"temperature", "reference_temperature", "linearized_temperature"}

FaultKinds == {"OpenCircuit", "ShortToGround", "ShortToPower", "FaultyReading"}

Frame(b0, b1, b2, b3) == (0 :> b0) @@ (1 :> b1) @@ (2 :> b2) @@ (3 :> b3)

ZeroFrame == Frame(0, 0, 0, 0)

\* Largest value of byte 3 delivered when several callers share the object.
ThreadedStatus == 1

\* Frames the chip delivers when several callers share the object: the zero
\* frame and a probe code of 4 with byte 3 from 0 (fault-free) upwards.
ThreadedFrames == {ZeroFrame} \cup {Frame(0, 16, 0, k) : k \in 0 .. ThreadedStatus}

\* Frames the chip delivers to a single caller: bytes 0-1 and bytes 2-3 vary
\* independently over zero, positive, negative, faulted and reserved-bit cases.
SingleHigh == {<<0, 0>>, <<0, 16>>, <<255, 252>>, <<62, 128>>, <<127, 252>>,
               <<0, 1>>, <<0, 3>>}

\* Largest value of byte 3 delivered to a single caller under a zero byte 2.
SingleStatus == 8

SingleLow == {<<0, 16>>, <<255, 240>>, <<25, 0>>} \cup {<<0, k>> : k \in 0 .. SingleStatus}

SingleFrames == {Frame(h[1], h[2], l[1], l[2]) : h \in SingleHigh, l \in SingleLow}

\* Every value of byte 3 up to DecodeLow is decoded.
DecodeLow == 16

\* Buffer contents the decoding half of _read is started from.
DecodeByte0 == {0, 1, 62, 127, 128, 255}
DecodeByte1 == {0, 1, 2, 3, 4, 16, 128, 252, 253, 254, 255}
DecodeByte2 == {0, 1, 25, 127, 128, 255}
DecodeByte3 == (0 .. DecodeLow) \cup {240, 247, 248, 255}

DecodeFrames == {Frame(a, b, c, d) : a \in DecodeByte0, b \in DecodeByte1,
                                     c \in DecodeByte2, d \in DecodeByte3}

FramesOf(u) == IF u = "single" THEN SingleFrames ELSE ThreadedFrames

Callers(u) == IF u = "single" THEN {1} ELSE Threads

NoRead == <<>>

----------------------------------------------------------------------------
(* Helpers of _read *)

\* byte & mask, for a one-bit mask
BitSet(byte, mask) == (byte \div mask) % 2 = 1

\* Int16 with the word read unsigned ('>H' for '>h')
Int16Unsigned(hi, lo) == hi * 256 + lo

\* struct.unpack('>h', ...): a big-endian signed 16-bit integer
Int16(hi, lo) ==
    LET u == hi * 256 + lo
    IN  IF u >= 32768 THEN u - 65536 ELSE u

Pow2(n) == IF n = 0 THEN 1 ELSE IF n = 1 THEN 2 ELSE IF n = 2 THEN 4
           ELSE IF n = 3 THEN 8 ELSE 16

\* x >>= n on a Python int: an arithmetic shift, i.e. floor division by 2^n
ShiftRight(x, n) == x \div Pow2(n)

\* temp, refer = struct.unpack('>hh', self.data); temp >>= 2
TempCode(f) == ShiftRight(Int16(f[0], f[1]), 2)

\* refer >>= 4
ReferCode(f) == ShiftRight(Int16(f[2], f[3]), 4)

\* self._read() / 4, in m°C
ProbeCelsius(c) == c * 250

\* ReferenceCelsius with the scale of 0.0625 degrees per code
ReferenceCelsiusSixteenth(c) == (c * 625) \div 10

\* self._read(True) * 0.625, in m°C
ReferenceCelsius(c) == c * 625

\* The fault checks and the unpacking of _read, applied to one buffer content.
ReadResult(f, internal) ==
    IF BitSet(f[3], 1) THEN [raised |-> {"OpenCircuit"}, code |-> {}]
    ELSE IF BitSet(f[3], 2) THEN [raised |-> {"ShortToGround"}, code |-> {}]
    ELSE IF BitSet(f[3], 4) THEN [raised |-> {"ShortToPower"}, code |-> {}]
    ELSE IF BitSet(f[1], 1) THEN [raised |-> {"FaultyReading"}, code |-> {}]
    ELSE [raised |-> {}, code |-> {IF internal THEN ReferCode(f) ELSE TempCode(f)}]

----------------------------------------------------------------------------
(* The linearization of linearized_temperature, in microvolts *)

\* (probeTempC - internalTempC) * 0.041276; both arguments are multiples of 125 m°C
ThermocoupleVoltage(probe, internal) ==
    (((probe - internal) \div 125) * 41276) \div 8000

\* The cold-junction polynomial and its exponential term, evaluated at the
\* reference temperatures of SingleFrames and rounded down to a microvolt.
ColdJunctionVoltage(internal) ==
    CASE internal = 0      -> 0
      [] internal = 625    -> 24
      [] internal = -625   -> -25
      [] internal = 250000 -> 10153

VoltageSum(probe, internal) ==
    ThermocoupleVoltage(probe, internal) + ColdJunctionVoltage(internal)

\* The coefficient set chosen for a voltage sum; 0 stands for the RuntimeError
\* "temperature out of linearized range".
Segment(voltageSum) ==
    IF voltageSum < 0 THEN 1
    ELSE IF voltageSum < 20644 THEN 2
    ELSE IF voltageSum < 54886 THEN 3
    ELSE 0

----------------------------------------------------------------------------
(* Actions *)

TypeOK ==
    /\ usage \in {"single", "threaded"}
    /\ data \in [0 .. 3 -> 0 .. 255]
    /\ lock \in {0} \cup Threads
    /\ pc \in [Threads -> {"idle", "enter", "readinto", "exit", "chk_open",
                           "chk_ground", "chk_power", "chk_faulty", "unpack", "done"}]
    /\ op \in [Threads -> Queries]
    /\ xerr \in [Threads -> BOOLEAN]
    /\ ntx \in [Threads -> 0 .. 2]

Idle ==
    /\ lock = 0
    /\ pc = [t \in Threads |-> "idle"]
    /\ op = [t \in Threads |-> "temperature"]
    /\ xerr = [t \in Threads |-> FALSE]
    /\ got = [t \in Threads |-> <<>>]
    /\ ntx = [t \in Threads |-> 0]
    /\ raised = [t \in Threads |-> {}]
    /\ code = [t \in Threads |-> {}]
    /\ value = [t \in Threads |-> {}]
    /\ last = NoRead

\* __init__: self.data = bytearray(4); several callers share the object
Init ==
    /\ usage = "threaded"
    /\ data = ZeroFrame
    /\ Idle

\* __init__, the object used by one caller
InitSingle ==
    /\ usage = "single"
    /\ data = ZeroFrame
    /\ Idle

\* A caller reads one of the three properties.
Call(t, q) ==
    /\ t \in Callers(usage)
    /\ pc[t] = "idle"
    /\ op' = [op EXCEPT ![t] = q]
    /\ pc' = [pc EXCEPT ![t] = "enter"]
    /\ UNCHANGED <<usage, data, lock, xerr, got, ntx, raised, code, value, last>>

\* with self.spi_device as spi: __enter__ spins until it holds the bus lock
Enter(t) ==
    /\ pc[t] = "enter"
    /\ lock = 0
    /\ lock' = t
    /\ pc' = [pc EXCEPT ![t] = "readinto"]
    /\ UNCHANGED <<usage, data, op, xerr, got, ntx, raised, code, value, last>>

\* spi.readinto(self.data): the 4-byte transfer overwrites the buffer
Readinto(t) ==
    /\ pc[t] = "readinto"
    /\ \E f \in FramesOf(usage) :
        /\ data' = f
        /\ got' = [got EXCEPT ![t] = Append(@, f)]
    /\ ntx' = [ntx EXCEPT ![t] = @ + 1]
    /\ pc' = [pc EXCEPT ![t] = "exit"]
    /\ UNCHANGED <<usage, lock, op, xerr, raised, code, value, last>>

\* spi.readinto raises: a transport error leaves the with-block; the failed
\* transfer may have written into the buffer before it raised
ReadintoFail(t) ==
    /\ pc[t] = "readinto"
    /\ data' \in {data} \cup FramesOf(usage)
    /\ xerr' = [xerr EXCEPT ![t] = TRUE]
    /\ ntx' = [ntx EXCEPT ![t] = @ + 1]
    /\ pc' = [pc EXCEPT ![t] = "exit"]
    /\ UNCHANGED <<usage, lock, op, got, raised, code, value, last>>

\* Exit keeping the lock when the block is left by an exception
ExitLeak(t) ==
    /\ pc[t] = "exit"
    /\ lock' = IF xerr[t] THEN lock ELSE 0
    /\ IF xerr[t]
       THEN /\ raised' = [raised EXCEPT ![t] = {"TransportFailure"}]
            /\ pc' = [pc EXCEPT ![t] = "done"]
       ELSE /\ raised' = raised
            /\ pc' = [pc EXCEPT ![t] = "chk_open"]
    /\ xerr' = [xerr EXCEPT ![t] = FALSE]
    /\ UNCHANGED <<usage, data, op, got, ntx, code, value, last>>

\* __exit__ of the with-statement: the lock is released, then a pending
\* transport error propagates out of _read and out of the property
Exit(t) ==
    /\ pc[t] = "exit"
    /\ lock' = 0
    /\ IF xerr[t]
       THEN /\ raised' = [raised EXCEPT ![t] = {"TransportFailure"}]
            /\ pc' = [pc EXCEPT ![t] = "done"]
       ELSE /\ raised' = raised
            /\ pc' = [pc EXCEPT ![t] = "chk_open"]
    /\ xerr' = [xerr EXCEPT ![t] = FALSE]
    /\ UNCHANGED <<usage, data, op, got, ntx, code, value, last>>

\* One fault check of _read: if self.data[i] & mask: raise RuntimeError(...)
Check(t, at, i, mask, kind, next) ==
    /\ pc[t] = at
    /\ IF BitSet(data[i], mask)
       THEN /\ raised' = [raised EXCEPT ![t] = {kind}]
            /\ pc' = [pc EXCEPT ![t] = "done"]
       ELSE /\ raised' = raised
            /\ pc' = [pc EXCEPT ![t] = next]
    /\ UNCHANGED <<usage, data, lock, op, xerr, got, ntx, code, value, last>>

\* CheckOpen testing byte 3 with the mask 0x02
CheckOpenWrongMask(t) == Check(t, "chk_open", 3, 2, "OpenCircuit", "chk_ground")

CheckOpen(t) == Check(t, "chk_open", 3, 1, "OpenCircuit", "chk_ground")

\* CheckGround starting the read over on a fault instead of raising
CheckGroundRetry(t) ==
    /\ pc[t] = "chk_ground"
    /\ pc' = [pc EXCEPT ![t] = IF BitSet(data[3], 2) THEN "enter" ELSE "chk_power"]
    /\ UNCHANGED <<usage, data, lock, op, xerr, got, ntx, raised, code, value, last>>

CheckGround(t) == Check(t, "chk_ground", 3, 2, "ShortToGround", "chk_power")

CheckPower(t) == Check(t, "chk_power", 3, 4, "ShortToPower", "chk_faulty")

\* CheckFaulty testing byte 1 with the mask 0x02
CheckFaultyWrongMask(t) == Check(t, "chk_faulty", 1, 2, "FaultyReading", "unpack")

CheckFaulty(t) == Check(t, "chk_faulty", 1, 1, "FaultyReading", "unpack")

\* Unpack decoding the frame kept from the previous value-returning read
UnpackCached(t) ==
    /\ pc[t] = "unpack"
    /\ LET f == IF last # NoRead THEN last[2][1] ELSE data
           c == IF op[t] = "reference_temperature" THEN ReferCode(f)
                ELSE TempCode(f)
       IN  /\ code' = [code EXCEPT ![t] = {c}]
           /\ CASE op[t] = "temperature" ->
                     /\ value' = [value EXCEPT ![t] = {ProbeCelsius(c)}]
                     /\ raised' = raised
                [] op[t] = "reference_temperature" ->
                     /\ value' = [value EXCEPT ![t] = {ReferenceCelsius(c)}]
                     /\ raised' = raised
                [] op[t] = "linearized_temperature" ->
                     /\ value' = value
                     /\ raised' = [raised EXCEPT ![t] = {"TypeError"}]
    /\ pc' = [pc EXCEPT ![t] = "done"]
    /\ UNCHANGED <<usage, data, lock, op, xerr, got, ntx, last>>

\* The rest of _read and of the property that called it. temperature and
\* reference_temperature scale the code; linearized_temperature evaluates
\* self.temperature (a property, so a float) and calls it, which raises
\* TypeError before anything else of its body runs.
Unpack(t) ==
    /\ pc[t] = "unpack"
    /\ LET c == IF op[t] = "reference_temperature" THEN ReferCode(data)
                ELSE TempCode(data)
       IN  /\ code' = [code EXCEPT ![t] = {c}]
           /\ CASE op[t] = "temperature" ->
                     /\ value' = [value EXCEPT ![t] = {ProbeCelsius(c)}]
                     /\ raised' = raised
                [] op[t] = "reference_temperature" ->
                     /\ value' = [value EXCEPT ![t] = {ReferenceCelsius(c)}]
                     /\ raised' = raised
                [] op[t] = "linearized_temperature" ->
                     /\ value' = value
                     /\ raised' = [raised EXCEPT ![t] = {"TypeError"}]
    /\ pc' = [pc EXCEPT ![t] = "done"]
    /\ UNCHANGED <<usage, data, lock, op, xerr, got, ntx, last>>

\* The call is over: its result goes to the caller, nothing of it stays in the
\* object but the buffer.
Return(t) ==
    /\ pc[t] = "done"
    /\ last' = IF value[t] # {}
               THEN <<op[t], got[t], value[t]>>
               ELSE last
    /\ pc' = [pc EXCEPT ![t] = "idle"]
    /\ got' = [got EXCEPT ![t] = <<>>]
    /\ ntx' = [ntx EXCEPT ![t] = 0]
    /\ raised' = [raised EXCEPT ![t] = {}]
    /\ code' = [code EXCEPT ![t] = {}]
    /\ value' = [value EXCEPT ![t] = {}]
    /\ UNCHANGED <<usage, data, lock, op, xerr>>

Next ==
    \E t \in Threads :
        \/ \E q \in Queries : Call(t, q)
        \/ Enter(t)
        \/ Readinto(t)
        \/ ReadintoFail(t)
        \/ Exit(t)
        \/ CheckOpen(t)
        \/ CheckGround(t)
        \/ CheckPower(t)
        \/ CheckFaulty(t)
        \/ Unpack(t)
        \/ Return(t)

\* Several callers share one MAX31855 object.
Spec == Init /\ [][Next]_vars

\* One caller uses the object.
SpecSingle == InitSingle /\ [][Next]_vars

\* The decoding half of _read, started from any buffer content: the caller
\* has just left the with-block with the frame it transferred in self.data.
InitDecode ==
    /\ usage = "single"
    /\ data \in DecodeFrames
    /\ lock = 0
    /\ \E q \in Queries : op = [t \in Threads |-> IF t = 1 THEN q ELSE "temperature"]
    /\ pc = [t \in Threads |-> IF t = 1 THEN "chk_open" ELSE "idle"]
    /\ xerr = [t \in Threads |-> FALSE]
    /\ got = [t \in Threads |-> IF t = 1 THEN <<data>> ELSE <<>>]
    /\ ntx = [t \in Threads |-> IF t = 1 THEN 1 ELSE 0]
    /\ raised = [t \in Threads |-> {}]
    /\ code = [t \in Threads |-> {}]
    /\ value = [t \in Threads |-> {}]
    /\ last = NoRead

NextDecode ==
    \/ CheckOpen(1)
    \/ CheckGround(1)
    \/ CheckPower(1)
    \/ CheckFaulty(1)
    \/ Unpack(1)

SpecDecode == InitDecode /\ [][NextDecode]_vars

----------------------------------------------------------------------------
(* Properties *)

\* The frame transferred by t's own (latest) bus transaction.
Fetched(t) == got[t][Len(got[t])]

\* t's call is over and its transfer delivered a frame.
Decoded(t) == pc[t] = "done" /\ got[t] # <<>>

\* The four fault bits of a frame, read off the byte values.
OpenBit(f) == f[3] % 2 = 1
GroundBit(f) == f[3] % 4 >= 2
PowerBit(f) == f[3] % 8 >= 4
FaultyBit(f) == f[1] % 2 = 1
FaultFree(f) == ~OpenBit(f) /\ ~GroundBit(f) /\ ~PowerBit(f) /\ ~FaultyBit(f)

\* The big-endian signed 16-bit word made of two bytes.
Word(hi, lo) == 256 * hi + lo - (IF hi >= 128 THEN 65536 ELSE 0)

\* C1: the fault bits are checked in the order open-circuit, short-to-ground,
\* short-to-power, faulty-reading; the first one set in the frame decides the
\* single fault kind raised (so byte 3 bit 0 always gives open-circuit), and a
\* faulted read returns neither a code nor a temperature.
C1_FaultPriority ==
    \A t \in Threads : Decoded(t) =>
        LET f == Fetched(t)
        IN  /\ OpenBit(f) => raised[t] = {"OpenCircuit"}
            /\ (~OpenBit(f) /\ GroundBit(f)) => raised[t] = {"ShortToGround"}
            /\ (~OpenBit(f) /\ ~GroundBit(f) /\ PowerBit(f)) =>
                    raised[t] = {"ShortToPower"}
            /\ (~OpenBit(f) /\ ~GroundBit(f) /\ ~PowerBit(f) /\ FaultyBit(f)) =>
                    raised[t] = {"FaultyReading"}
            /\ FaultFree(f) => raised[t] \cap FaultKinds = {}
            /\ ~FaultFree(f) => code[t] = {} /\ value[t] = {}

\* A read of a frame with every fault bit set has ended with open-circuit.
C1_Witness ==
    \E t \in Threads :
        /\ Decoded(t)
        /\ Fetched(t)[3] = 255
        /\ Fetched(t)[1] = 255
        /\ raised[t] = {"OpenCircuit"}

\* C2: for a frame with the fault bits clear, _read succeeds; the probe code is
\* the signed word of bytes 0-1 shifted right arithmetically by 2 and lies in
\* [-8192, 8191]; the reference code is the signed word of bytes 2-3 shifted
\* right arithmetically by 4 and lies in [-2048, 2047].
C2_SignedCodes ==
    \A t \in Threads : (Decoded(t) /\ FaultFree(Fetched(t))) =>
        LET f == Fetched(t)
            w0 == Word(f[0], f[1])
            w1 == Word(f[2], f[3])
        IN  /\ raised[t] \cap FaultKinds = {}
            /\ Cardinality(code[t]) = 1
            /\ \A c \in code[t] :
                IF op[t] = "reference_temperature"
                THEN /\ c \in -2048 .. 2047
                     /\ 16 * c <= w1
                     /\ w1 <= 16 * c + 15
                ELSE /\ c \in -8192 .. 8191
                     /\ 4 * c <= w0
                     /\ w0 <= 4 * c + 3

\* A reference read of the most negative reference word has returned -2048.
C2_Witness ==
    \E t \in Threads :
        /\ Decoded(t)
        /\ op[t] = "reference_temperature"
        /\ Fetched(t)[2] = 128
        /\ Fetched(t)[3] = 0
        /\ code[t] = {-2048}

\* byte with the bit of a one-bit mask flipped
Flip(byte, mask) == IF (byte \div mask) % 2 = 1 THEN byte - mask ELSE byte + mask

\* The frames that differ from f at most in byte 1 bit 1 and byte 3 bit 3.
ReservedVariants(f) ==
    {[f EXCEPT ![1] = a, ![3] = b] : a \in {f[1], Flip(f[1], 2)},
                                     b \in {f[3], Flip(f[3], 8)}}

\* C10: the outcome of _read does not depend on the reserved bits (byte 1
\* bit 1, byte 3 bit 3): decoding any frame that differs from the fetched one
\* only in those bits gives the same fault kind or the same code.
C10_ReservedBitsIgnored ==
    \A t \in Threads : Decoded(t) =>
        \A g \in ReservedVariants(Fetched(t)) :
            LET r == ReadResult(g, op[t] = "reference_temperature")
            IN  /\ r.raised = raised[t] \cap FaultKinds
                /\ r.code = code[t]

\* A read of a fault-free frame with both reserved bits set has returned a code.
C10_Witness ==
    \E t \in Threads :
        /\ Decoded(t)
        /\ (Fetched(t)[1] \div 2) % 2 = 1
        /\ (Fetched(t)[3] \div 8) % 2 = 1
        /\ code[t] # {}

\* C8: for a fault-free frame temperature returns exactly code / 4 and
\* reference_temperature exactly code * 0.625 (values in m°C): the all-zero
\* frame gives 0.0, a probe code of 4 gives 1.0, a reference code of 1 gives
\* 0.625.
C8_Scaling ==
    \A t \in Threads :
        (Decoded(t) /\ FaultFree(Fetched(t)) /\ op[t] # "linearized_temperature") =>
            /\ Cardinality(value[t]) = 1
            /\ Cardinality(code[t]) = 1
            /\ \A c \in code[t] : \A v \in value[t] :
                /\ op[t] = "temperature" => 4 * v = 1000 * c
                /\ op[t] = "reference_temperature" => 8 * v = 5000 * c
                /\ Fetched(t) = ZeroFrame => v = 0
                /\ (op[t] = "temperature" /\ c = 4) => v = 1000
                /\ (op[t] = "reference_temperature" /\ c = 1) => v = 625

\* A reference read of code 1 has returned 0.625.
C8_Witness ==
    \E t \in Threads :
        /\ Decoded(t)
        /\ op[t] = "reference_temperature"
        /\ code[t] = {1}
        /\ value[t] = {625}

\* C7: a call of temperature or reference_temperature makes exactly one bus
\* transaction, which overwrites the buffer; its outcome is the decoding of
\* the frame that transaction fetched and of nothing else; a fault ends the
\* call without a second transaction.
C7_OneTransaction ==
    \A t \in Threads : op[t] # "linearized_temperature" =>
        /\ ntx[t] <= 1
        /\ Len(got[t]) <= 1
        /\ pc[t] = "done" => ntx[t] = 1
        /\ Decoded(t) =>
            LET r == ReadResult(got[t][1], op[t] = "reference_temperature")
            IN  /\ data = got[t][1]
                /\ raised[t] = r.raised
                /\ code[t] = r.code

\* A temperature read has ended in a fault after its single transaction.
C7_Witness ==
    \E t \in Threads :
        /\ Decoded(t)
        /\ op[t] = "temperature"
        /\ raised[t] = {"ShortToGround"}
        /\ ntx[t] = 1

\* C9: a read that returns a value returns the same value as the previous
\* value-returning read whenever that one went through the same property and
\* fetched the same frame, whatever was read (or faulted) before.
C9_RepeatableRead ==
    \A t \in Threads :
        (Decoded(t) /\ value[t] # {} /\ last # NoRead) =>
            ((last[1] = op[t] /\ last[2] = got[t]) => value[t] = last[3])

\* A read has returned a non-zero value for the same property and frame as the
\* previous value-returning read.
C9_Witness ==
    \E t \in Threads :
        /\ Decoded(t)
        /\ value[t] # {}
        /\ value[t] # {0}
        /\ last # NoRead
        /\ last[1] = op[t]
        /\ last[2] = got[t]

\* C5: the bus lock is held by a caller exactly while it is inside the
\* with-block of _read (the transfer and the exit of the block); it is held by
\* no call that has returned, raised a fault or propagated a transport error.
C5_LockScoped ==
    \A t \in Threads : (lock = t) <=> (pc[t] \in {"readinto", "exit"})

\* A call has ended with a transport error and does not hold the bus.
C5_Witness ==
    \E t \in Threads :
        /\ pc[t] = "done"
        /\ raised[t] = {"TransportFailure"}
        /\ lock # t

\* C4: with several callers, the fault decision and the code of each read are
\* decoded from the frame transferred by that read's own transaction.
C4_OwnFrameDecoded ==
    \A t \in Threads : Decoded(t) =>
        LET r == ReadResult(Fetched(t), op[t] = "reference_temperature")
        IN  /\ raised[t] \cap FaultKinds = r.raised
            /\ code[t] = r.code

\* The voltage sum linearized_temperature is to compute from a fetched frame.
FrameVoltage(f) ==
    VoltageSum(ProbeCelsius(TempCode(f)), ReferenceCelsius(ReferCode(f)))

\* C3: a call of linearized_temperature ends in exactly one of a value, a
\* fault error, the out-of-range error or a transport failure, and returns a
\* value whenever the frame is fault-free and the voltage sum is below
\* 54.886 mV.
C3_LinearizedOutcome ==
    \A t \in Threads : (pc[t] = "done" /\ op[t] = "linearized_temperature") =>
        /\ raised[t] \subseteq FaultKinds \cup {"OutOfRange", "TransportFailure"}
        /\ Cardinality(raised[t]) + Cardinality(value[t]) = 1
        /\ (got[t] # <<>> /\ FaultFree(Fetched(t))
                /\ FrameVoltage(Fetched(t)) < 54886) => value[t] # {}

\* C6: linearized_temperature selects by the voltage sum alone: it fails with
\* the out-of-range error at 54.886 mV and above, and succeeds with one of the
\* three coefficient sets below.
C6_SegmentSelection ==
    \A t \in Threads :
        (Decoded(t) /\ op[t] = "linearized_temperature" /\ FaultFree(Fetched(t))) =>
            IF Segment(FrameVoltage(Fetched(t))) = 0
            THEN raised[t] = {"OutOfRange"} /\ value[t] = {}
            ELSE raised[t] = {} /\ value[t] # {}

====
